---- MODULE Spec2Model ----
(***************************************************************************)
(* Newsletter query pipeline (src/main.py): parse -> pitch -> draft ->     *)
(* approve -> send over the collections query, pitch, emaildraft, sent     *)
(* and the singleton settings collection.                                  *)
(*                                                                         *)
(* A collection is the sequence of its documents in the store's natural    *)
(* (insertion) order.  A document is a record.  The store is available:    *)
(* the only store failure modelled is a failing insert inside /parse.      *)
(* Timestamps are kept only where a stored value is compared by the store  *)
(* (updated_at, which decides modified_count).                             *)
(***************************************************************************)
EXTENDS Integers, Sequences, FiniteSets, TLC

VARIABLES query, pitch, emaildraft, sent, settings, now, resp, everApproved, reqs

vars == <<query, pitch, emaildraft, sent, settings, now, resp, everApproved, reqs>>

(***************************************************************************)
(* Bounds of the model.                                                    *)
(***************************************************************************)
MaxQuery == 2
MaxPitch == 1
MaxDraft == 1
MaxSent == 1
MaxClock == 1
MaxScanExtra == 2
MaxReqs == 2

(***************************************************************************)
(* Program constants.                                                      *)
(***************************************************************************)
QueryScanLimit == 200
PitchLookupLimit == 1
SettingsLimit == 1

Min(a, b) == IF a < b THEN a ELSE b

(***************************************************************************)
(* Identifiers.  The store assigns ObjectIds; requests and reference       *)
(* fields carry strings.  The two are different types: a string never      *)
(* equals an ObjectId.  c and n stand for the 24 hex digits.               *)
(***************************************************************************)
NewObjectId(coll, n) == [t |-> "ObjectId", c |-> coll, n |-> n]

str(oid) == [t |-> "str", c |-> oid.c, n |-> oid.n]

JunkId == [t |-> "str", c |-> "not-hex", n |-> 0]

ObjectIdValid(s) == s.c # "not-hex"

ObjectId(s) == [t |-> "ObjectId", c |-> s.c, n |-> s.n]

(***************************************************************************)
(* The store adapter (database.py) and the pymongo calls main.py makes.    *)
(***************************************************************************)
\* a filter is a record of field conditions; <<>> is the empty filter {}
Exists == [exists |-> TRUE]

Matches(d, filter) ==
    \A k \in DOMAIN filter :
        /\ k \in DOMAIN d
        /\ filter[k] = Exists \/ d[k] = filter[k]

get_documents(docs, filter, limit) ==
    LET Hit(d) == Matches(d, filter)
        hits   == SelectSeq(docs, Hit)
    IN  SubSeq(hits, 1, Min(limit, Len(hits)))

inserted_id(docs, coll) == NewObjectId(coll, Len(docs) + 1)

create_document(docs, coll, data) ==
    Append(docs, data @@ [_id |-> inserted_id(docs, coll)])

IdMatches(d, id) == d._id = id

FirstIndex(docs, id) ==
    LET hit == {i \in 1..Len(docs) : IdMatches(docs[i], id)}
    IN  IF hit = {} THEN 0 ELSE CHOOSE i \in hit : \A j \in hit : i <= j

find_one(docs, id) ==
    LET i == FirstIndex(docs, id)
    IN  IF i = 0 THEN <<>> ELSE <<docs[i]>>

update_one(docs, id, set) ==
    LET i == FirstIndex(docs, id)
    IN  IF i = 0
        THEN [docs |-> docs, matched_count |-> 0, modified_count |-> 0]
        ELSE LET new == set @@ docs[i]
             IN  [docs |-> [docs EXCEPT ![i] = new],
                  matched_count |-> 1,
                  modified_count |-> IF new = docs[i] THEN 0 ELSE 1]

Get(d, key, default) == IF key \in DOMAIN d THEN d[key] ELSE default

(***************************************************************************)
(* Templates.  A template is a sequence of tokens, a literal or a named    *)
(* placeholder {v}.  format substitutes keyword arguments and raises       *)
(* KeyError at the first placeholder that is no keyword.                   *)
(***************************************************************************)
Lit(s) == [k |-> "lit", v |-> s]
Ph(s) == [k |-> "ph", v |-> s]

RECURSIVE format(_, _)
format(tpl, kw) ==
    IF tpl = <<>> THEN [ok |-> TRUE, out |-> ""]
    ELSE LET t == Head(tpl)
         IN  IF t.k = "ph" /\ t.v \notin DOMAIN kw
             THEN [ok |-> FALSE, out |-> t.v]
             ELSE LET rest == format(Tail(tpl), kw)
                  IN  IF ~rest.ok THEN rest
                      ELSE [ok |-> TRUE,
                            out |-> (IF t.k = "ph" THEN kw[t.v] ELSE t.v) \o rest.out]

DefaultIntro ==
    <<Lit("Hi "), Ph("name"), Lit(",\n\nThanks for reaching out. I'm "),
      Ph("your_name"), Lit(", a "), Ph("your_title"), Lit(".")>>

DefaultSignature ==
    <<Lit("\n\nBest,\n"), Ph("your_name"), Lit("\n"), Ph("your_title"),
      Lit("\n"), Ph("your_website")>>

DefaultStyle ==
    [tone |-> "friendly",
     voice |-> "First-person expert but approachable",
     intro_template |-> DefaultIntro,
     signature_template |-> DefaultSignature,
     your_name |-> "Your Name",
     your_title |-> "Licensed Psychologist",
     your_website |-> "yourwebsite.com"]

DraftDefaultStyle ==
    [intro_template |-> DefaultIntro,
     signature_template |-> DefaultSignature,
     your_name |-> "Your Name",
     your_title |-> "Licensed Psychologist",
     your_website |-> "yourwebsite.com"]

(***************************************************************************)
(* Settings documents an operator may have stored (schemas.Settings).      *)
(***************************************************************************)
Recognized == {"name", "your_name", "your_title", "your_website"}

StoredSettings(tone, intro, signature) ==
    [tone |-> tone,
     voice |-> "First-person expert but approachable",
     intro_template |-> intro,
     signature_template |-> signature,
     your_name |-> "Dr. Ada",
     your_title |-> "Psychologist",
     your_website |-> "ada.example"]

SettingsDocs ==
    {StoredSettings("formal", DefaultIntro, DefaultSignature),
     StoredSettings("confident", <<Lit("Dear "), Ph("name"), Lit(" at "), Ph("company")>>,
                    DefaultSignature),
     StoredSettings("concise", DefaultIntro, <<Lit("\n\nCall "), Ph("phone")>>)}

Placeholders(tpl) == {tpl[i].v : i \in {j \in 1..Len(tpl) : tpl[j].k = "ph"}}


(***************************************************************************)
(* Requests a client may send.                                             *)
(***************************************************************************)
\* the ids of the first max documents of a collection, as a client sends them
IdInputs(coll, max) == {str(NewObjectId(coll, n)) : n \in 1..max}

ParseLimits == (-1)..MaxQuery

(***************************************************************************)
(* POST /parse                                                             *)
(***************************************************************************)
\* sample_items with the loop one item short
sample_items_short(limit) ==
    [i \in 1..(limit - 1) |->
        [subject |-> "Call for psychology expert comment #" \o ToString(i),
         sender_email |-> "editor" \o ToString(i) \o "@newsletter.com",
         sender_name |-> "Newsletter Editor",
         status |-> "new"]]

\* sample_items creating the queries in another state
sample_items_drafted(limit) ==
    [i \in 1..limit |->
        [subject |-> "Call for psychology expert comment #" \o ToString(i),
         sender_email |-> "editor" \o ToString(i) \o "@newsletter.com",
         sender_name |-> "Newsletter Editor",
         status |-> "drafted"]]

sample_items(limit) ==
    [i \in 1..limit |->
        [subject |-> "Call for psychology expert comment #" \o ToString(i),
         sender_email |-> "editor" \o ToString(i) \o "@newsletter.com",
         sender_name |-> "Newsletter Editor",
         status |-> "new"]]

\* the insert loop: item i gets the i-th id after those already stored
insert_all(docs, coll, items) ==
    docs \o [i \in 1..Len(items) |->
                items[i] @@ [_id |-> NewObjectId(coll, Len(docs) + i)]]

\* failAt = 0: every insert succeeds; failAt = k: the k-th insert raises.
parse_newsletters(limit, failAt) ==
    LET items == sample_items(limit)
        done  == IF failAt = 0 THEN items ELSE SubSeq(items, 1, failAt - 1)
        after == insert_all(query, "query", done)
    IN  /\ query' = after
        /\ resp' = IF failAt = 0
                   THEN [op |-> "parse", status |-> 200,
                         inserted |-> Len(done),
                         ids |-> [i \in 1..Len(done) |-> str(after[Len(query) + i]._id)]]
                   ELSE [op |-> "parse", status |-> 500,
                         detail |-> "insert failed"]
        /\ UNCHANGED <<pitch, emaildraft, sent, settings, now, everApproved, reqs>>

(***************************************************************************)
(* Query lookup shared by /pitch and /draft.                               *)
(***************************************************************************)
resolve_settings(default) ==
    LET settings_docs == get_documents(settings, <<>>, SettingsLimit)
    IN  IF settings_docs # <<>> THEN settings_docs[1] ELSE default

\* next(d for d in docs if str(d["_id"]) == query_id, None): <<>> stands for None
first_with_id(docs, query_id) ==
    LET hit == {i \in 1..Len(docs) : str(docs[i]._id) = query_id}
    IN  IF hit = {} THEN <<>>
        ELSE <<docs[CHOOSE i \in hit : \A j \in hit : i <= j]>>

\* find_query scanning the whole collection
find_query_unbounded(query_id) == first_with_id(query, query_id)

find_query(query_id) ==
    first_with_id(get_documents(query, [_id |-> Exists], QueryScanLimit), query_id)

(***************************************************************************)
(* POST /pitch                                                             *)
(***************************************************************************)
closing(tone) ==
    IF tone = "formal"
    THEN "I would be pleased to provide a concise, research-informed statement."
    ELSE IF tone = "confident"
    THEN "I regularly comment for national outlets and can deliver a crisp quote."
    ELSE "Happy to share a tight quote that serves your readers."

pitch_text(subject, tone) ==
    "Regarding: " \o subject \o "\n\nKey points I can contribute:\n"
    \o "- Evidence-based insights on burnout and coping\n"
    \o "- Practical takeaways grounded in CBT and behavioral science\n"
    \o "- Availability for quick follow-up if needed\n"
    \o closing(tone)

generate_pitch(query_id) ==
    LET style  == resolve_settings(DefaultStyle)
        target == find_query(query_id)
    IN  IF target = <<>>
        THEN /\ resp' = [op |-> "pitch", status |-> 404,
                         detail |-> "Query not found"]
             /\ UNCHANGED <<query, pitch, emaildraft, sent, settings, now,
                            everApproved, reqs>>
        ELSE LET content == pitch_text(Get(target[1], "subject", ""),
                                       Get(style, "tone", "None"))
                 doc == [query_id |-> query_id, content |-> content,
                         style_used |-> [tone |-> Get(style, "tone", "None"),
                                         voice |-> Get(style, "voice", "None")]]
             IN  /\ pitch' = create_document(pitch, "pitch", doc)
                 /\ resp' = [op |-> "pitch", status |-> 200,
                             pitch_id |-> str(inserted_id(pitch, "pitch")),
                             content |-> content]
                 /\ UNCHANGED <<query, emaildraft, sent, settings, now,
                                everApproved, reqs>>

(***************************************************************************)
(* POST /draft                                                             *)
(***************************************************************************)
PlaceholderPitch == "See below for my quick take: ..."

lookup_pitch(query_id) ==
    get_documents(pitch, [query_id |-> query_id], PitchLookupLimit)

pitch_content_for(query_id) ==
    LET pitch_docs == lookup_pitch(query_id)
        c == IF pitch_docs # <<>> THEN Get(pitch_docs[1], "content", "") ELSE ""
    IN  IF c = "" THEN PlaceholderPitch ELSE c

render_intro(style, target) ==
    LET sn   == Get(target, "sender_name", "")
        name == IF sn = "" THEN "there" ELSE sn
    IN  format(Get(style, "intro_template", <<>>),
               [name |-> name,
                your_name |-> Get(style, "your_name", "Your Name"),
                your_title |-> Get(style, "your_title", "Licensed Psychologist")])

render_signature(style) ==
    format(Get(style, "signature_template", <<>>),
           [your_name |-> Get(style, "your_name", "Your Name"),
            your_title |-> Get(style, "your_title", "Licensed Psychologist"),
            your_website |-> Get(style, "your_website", "yourwebsite.com")])

compose_body(intro, pitch_content, signature) ==
    intro \o "\n\n" \o pitch_content \o signature

draft_email(query_id) ==
    LET style  == resolve_settings(DraftDefaultStyle)
        target == find_query(query_id)
    IN  IF target = <<>>
        THEN /\ resp' = [op |-> "draft", status |-> 404,
                         detail |-> "Query not found"]
             /\ UNCHANGED <<query, pitch, emaildraft, sent, settings, now,
                            everApproved, reqs>>
        ELSE LET pitch_content == pitch_content_for(query_id)
                 intro     == render_intro(style, target[1])
                 signature == render_signature(style)
             IN  IF ~intro.ok \/ ~signature.ok
                 THEN \* KeyError escapes the handler: the framework answers 500
                      /\ resp' = [op |-> "draft", status |-> 500,
                                  detail |-> "Internal Server Error"]
                      /\ UNCHANGED <<query, pitch, emaildraft, sent, settings, now,
                                     everApproved, reqs>>
                 ELSE LET body == compose_body(intro.out, pitch_content, signature.out)
                          draft_doc == [query_id |-> query_id,
                                        to_email |-> target[1].sender_email,
                                        subject |-> target[1].subject,
                                        body |-> body,
                                        approved |-> FALSE]
                      IN  /\ emaildraft' = create_document(emaildraft, "emaildraft", draft_doc)
                          /\ resp' = [op |-> "draft", status |-> 200,
                                      draft_id |-> str(inserted_id(emaildraft, "emaildraft")),
                                      body |-> body]
                          /\ UNCHANGED <<query, pitch, sent, settings, now,
                                         everApproved, reqs>>


(***************************************************************************)
(* What the "except Exception" clause of /approve and /send makes of an    *)
(* exception raised inside the try block: HTTPException is an Exception,   *)
(* so it is caught and re-raised as a 500 carrying str(e).                 *)
(***************************************************************************)
reraised(op, status, detail) ==
    [op |-> op, status |-> 500,
     detail |-> ToString(status) \o ": " \o detail]

InvalidId(op) ==
    [op |-> op, status |-> 500,
     detail |-> "not a valid ObjectId"]

(***************************************************************************)
(* POST /approve                                                           *)
(***************************************************************************)
approve_draft(draft_id, approved) ==
    IF ~ObjectIdValid(draft_id)
    THEN /\ resp' = InvalidId("approve")
         /\ UNCHANGED <<query, pitch, emaildraft, sent, settings, now, reqs>>
    ELSE LET result == update_one(emaildraft, ObjectId(draft_id),
                                  [approved |-> approved, updated_at |-> now])
         IN  IF result.matched_count = 0
             THEN /\ resp' = reraised("approve", 404, "Draft not found")
                  /\ UNCHANGED <<query, pitch, emaildraft, sent, settings, now, reqs>>
             ELSE /\ emaildraft' = result.docs
                  /\ resp' = [op |-> "approve", status |-> 200,
                              updated |-> (result.modified_count # 0)]
                  /\ UNCHANGED <<query, pitch, sent, settings, now, reqs>>

(***************************************************************************)
(* POST /send, in the three store calls it makes.                          *)
(***************************************************************************)
\* send_lookup without the approval check
send_lookup_unchecked(draft_id) ==
    LET found == find_one(emaildraft, ObjectId(draft_id))
    IN  IF found = <<>> THEN [ok |-> FALSE, status |-> 404, detail |-> "Draft not found"]
        ELSE [ok |-> TRUE, draft |-> found[1]]

\* find_one and the two checks of the handler
send_lookup(draft_id) ==
    LET found == find_one(emaildraft, ObjectId(draft_id))
    IN  IF found = <<>> THEN [ok |-> FALSE, status |-> 404, detail |-> "Draft not found"]
        ELSE IF ~Get(found[1], "approved", FALSE)
        THEN [ok |-> FALSE, status |-> 400, detail |-> "Draft not approved"]
        ELSE [ok |-> TRUE, draft |-> found[1]]

send_record(draft) ==
    [draft_id |-> str(draft._id),
     to |-> Get(draft, "to_email", "None"),
     subject |-> Get(draft, "subject", "None"),
     body |-> Get(draft, "body", "None")]

update_query_status(draft) ==
    update_one(query, Get(draft, "query_id", "None"),
               [status |-> "sent", updated_at |-> now])

send_ok(sent_id) ==
    [op |-> "send", status |-> 200, sent_id |-> sent_id]

\* the handler run to completion with no other request in between
send_email(draft_id) ==
    IF ~ObjectIdValid(draft_id)
    THEN /\ resp' = InvalidId("send")
         /\ UNCHANGED <<query, pitch, emaildraft, sent, settings, now,
                        everApproved, reqs>>
    ELSE LET r == send_lookup(draft_id)
         IN  IF ~r.ok
             THEN /\ resp' = reraised("send", r.status, r.detail)
                  /\ UNCHANGED <<query, pitch, emaildraft, sent, settings, now,
                                 everApproved, reqs>>
             ELSE /\ sent' = create_document(sent, "sent", send_record(r.draft))
                  /\ query' = update_query_status(r.draft).docs
                  /\ resp' = send_ok(str(inserted_id(sent, "sent")))
                  /\ UNCHANGED <<pitch, emaildraft, settings, now, everApproved, reqs>>

(***************************************************************************)
(* POST /send under concurrent requests: each store call is one step, and  *)
(* other requests may run between the steps.  reqs holds the requests in   *)
(* flight with the draft their find_one returned.                          *)
(***************************************************************************)
Remove(seq, i) == SubSeq(seq, 1, i - 1) \o SubSeq(seq, i + 1, Len(seq))

send_begin(draft_id) ==
    IF ~ObjectIdValid(draft_id)
    THEN /\ resp' = InvalidId("send")
         /\ UNCHANGED <<query, pitch, emaildraft, sent, settings, now,
                        everApproved, reqs>>
    ELSE LET r == send_lookup(draft_id)
         IN  IF ~r.ok
             THEN /\ resp' = reraised("send", r.status, r.detail)
                  /\ UNCHANGED <<query, pitch, emaildraft, sent, settings, now,
                                 everApproved, reqs>>
             ELSE /\ Len(reqs) < MaxReqs
                  /\ reqs' = Append(reqs, [pc |-> "insert", draft |-> r.draft])
                  /\ UNCHANGED <<query, pitch, emaildraft, sent, settings, now,
                                 resp, everApproved>>

send_insert(i) ==
    /\ reqs[i].pc = "insert"
    /\ sent' = create_document(sent, "sent", send_record(reqs[i].draft))
    /\ reqs' = [reqs EXCEPT ![i] = [pc |-> "update", draft |-> reqs[i].draft,
                                    sent_id |-> str(inserted_id(sent, "sent"))]]
    /\ UNCHANGED <<query, pitch, emaildraft, settings, now, resp, everApproved>>

send_update(i) ==
    /\ reqs[i].pc = "update"
    /\ query' = update_query_status(reqs[i].draft).docs
    /\ resp' = send_ok(reqs[i].sent_id)
    /\ reqs' = Remove(reqs, i)
    /\ UNCHANGED <<pitch, emaildraft, sent, settings, now, everApproved>>

(***************************************************************************)
(* The environment: the clock (millisecond stamps) advances, and the       *)
(* operator stores the Settings document (no endpoint writes it).          *)
(***************************************************************************)
Tick ==
    /\ now < MaxClock
    /\ now' = now + 1
    /\ UNCHANGED <<query, pitch, emaildraft, sent, settings, resp, everApproved, reqs>>

store_settings(s) ==
    /\ settings = <<>>
    /\ settings' = <<s>>
    /\ UNCHANGED <<query, pitch, emaildraft, sent, now, resp, everApproved, reqs>>

(***************************************************************************)
(* Initial state: empty collections, no request answered yet.              *)
(***************************************************************************)
Init ==
    /\ query = <<>>
    /\ pitch = <<>>
    /\ emaildraft = <<>>
    /\ sent = <<>>
    /\ settings = <<>>
    /\ now = 0
    /\ resp = [op |-> "none", status |-> 0]
    /\ everApproved = {}
    /\ reqs = <<>>

(***************************************************************************)
(* The requests clients send, with the bounds that keep the model finite.  *)
(***************************************************************************)
FailPoints(limit) == {0} \cup {k \in {1, limit} : k >= 1}

Parse ==
    \E limit \in ParseLimits : \E failAt \in FailPoints(limit) :
        /\ Len(query) + limit <= MaxQuery
        /\ parse_newsletters(limit, failAt)

PitchUpTo(max) ==
    /\ Len(pitch) < max
    /\ \E id \in IdInputs("query", Len(query) + 1) : generate_pitch(id)

Pitch == PitchUpTo(MaxPitch)

Draft ==
    /\ Len(emaildraft) < MaxDraft
    /\ \E id \in IdInputs("query", Len(query) + 1) : draft_email(id)

Approve ==
    \E id \in IdInputs("emaildraft", Len(emaildraft) + 1) \cup {JunkId} : \E v \in BOOLEAN :
        /\ approve_draft(id, v)
        /\ UNCHANGED everApproved

Send ==
    /\ Len(sent) < MaxSent
    /\ \E id \in IdInputs("emaildraft", Len(emaildraft) + 1) \cup {JunkId} : send_email(id)

StoreSettings == \E s \in SettingsDocs : store_settings(s)

(***************************************************************************)
(* Spec: the program's requests, handled one at a time.                    *)
(***************************************************************************)
Next == Parse \/ Pitch \/ Draft \/ Approve \/ Send

Spec == Init /\ [][Next]_vars

(***************************************************************************)
(* SpecClock: the same, with the clock advancing between requests.         *)
(***************************************************************************)
NextClock == Parse \/ Draft \/ Approve \/ Send \/ Tick

SpecClock == Init /\ [][NextClock]_vars

(***************************************************************************)
(* SpecCompose: the composer stages with an operator-stored Settings.      *)
(***************************************************************************)
PitchAgain == PitchUpTo(MaxPitch + 1)

NextCompose == Parse \/ PitchAgain \/ Draft \/ StoreSettings

SpecCompose == Init /\ [][NextCompose]_vars

(***************************************************************************)
(* SpecScan: a query collection that grows past the scan limit.            *)
(***************************************************************************)
ScanLimits == {QueryScanLimit \div 2, QueryScanLimit \div 2 + 1}

ScanProbes ==
    {str(NewObjectId("query", n)) :
        n \in {1, QueryScanLimit} \cup
              (QueryScanLimit + 1)..(QueryScanLimit + MaxScanExtra)}

ParseScan ==
    \E limit \in ScanLimits :
        /\ Len(query) + limit <= QueryScanLimit + MaxScanExtra
        /\ parse_newsletters(limit, 0)

PitchScan ==
    /\ Len(pitch) < MaxPitch
    /\ \E id \in ScanProbes : generate_pitch(id)

DraftScan ==
    /\ Len(emaildraft) < MaxDraft
    /\ \E id \in ScanProbes : draft_email(id)

NextScan == ParseScan \/ PitchScan \/ DraftScan

SpecScan == Init /\ [][NextScan]_vars

(***************************************************************************)
(* SpecConc: draft, approve and send requests in flight together.          *)
(***************************************************************************)
\* everApproved records the drafts on which an approve(true) has taken effect
ApproveRecorded ==
    \E id \in IdInputs("emaildraft", Len(emaildraft) + 1) \cup {JunkId} : \E v \in BOOLEAN :
        /\ approve_draft(id, v)
        /\ everApproved' = IF resp'.status = 200 /\ v
                           THEN everApproved \cup {ObjectId(id)}
                           ELSE everApproved

SendBegin == \E id \in IdInputs("emaildraft", Len(emaildraft) + 1) \cup {JunkId} : send_begin(id)

SendInsert ==
    /\ Len(sent) < MaxSent
    /\ \E i \in 1..Len(reqs) : send_insert(i)

SendUpdate == \E i \in 1..Len(reqs) : send_update(i)

Seed == query = <<>> /\ parse_newsletters(1, 0)

NextConc == Seed \/ Draft \/ ApproveRecorded \/ SendBegin \/ SendInsert \/ SendUpdate

SpecConc == Init /\ [][NextConc]_vars

(***************************************************************************)
(* Vocabulary of the properties.                                           *)
(***************************************************************************)
DraftRequests == IdInputs("emaildraft", Len(emaildraft) + 1) \cup {JunkId}

QueryRequests == IdInputs("query", Len(query) + 1)

\* the stored drafts a request id names (at most one)
DraftsNamed(id) == {i \in 1..Len(emaildraft) : str(emaildraft[i]._id) = id}

DraftExists(id) == DraftsNamed(id) # {}

DraftNamed(id) == emaildraft[CHOOSE i \in DraftsNamed(id) : TRUE]

\* the position of the Query a reference names, 0 when there is none
QueryPos(query_id) ==
    LET hit == {i \in 1..Len(query) : str(query[i]._id) = query_id}
    IN  IF hit = {} THEN 0 ELSE CHOOSE i \in hit : TRUE

Statuses(docs) == [i \in 1..Len(docs) |-> docs[i].status]

IsCopyOf(rec, draft) ==
    /\ rec.draft_id = str(draft._id)
    /\ rec.to = draft.to_email
    /\ rec.subject = draft.subject
    /\ rec.body = draft.body

(***************************************************************************)
(* C1: a successful send_email on an approved draft adds exactly one       *)
(* SentRecord copied from the draft and leaves the Query the draft         *)
(* references with status "sent".                                          *)
(***************************************************************************)
C1_SendMarksQuerySent ==
    [][\A id \in DraftRequests :
        (/\ DraftExists(id)
         /\ DraftNamed(id).approved
         /\ send_email(id)
         /\ resp'.status = 200)
        => /\ Len(sent') = Len(sent) + 1
           /\ SubSeq(sent', 1, Len(sent)) = sent
           /\ IsCopyOf(sent'[Len(sent')], DraftNamed(id))
           /\ QueryPos(DraftNamed(id).query_id) # 0
           /\ query'[QueryPos(DraftNamed(id).query_id)].status = "sent"]_vars

(***************************************************************************)
(* C2: send_email on an existing draft whose approved flag is false fails  *)
(* and changes nothing: the sent collection and every Query's status are   *)
(* as before the call.                                                     *)
(***************************************************************************)
C2_UnapprovedSendChangesNothing ==
    [][\A id \in DraftRequests :
        (/\ DraftExists(id)
         /\ ~DraftNamed(id).approved
         /\ resp'.op = "send"
         /\ send_email(id))
        => /\ resp'.status # 200
           /\ sent' = sent
           /\ Statuses(query') = Statuses(query)
           /\ emaildraft' = emaildraft]_vars

C2_Witness ==
    /\ resp.op = "send"
    /\ resp.status # 200
    /\ resp.detail = "400: Draft not approved"
    /\ \E i \in 1..Len(emaildraft) : ~emaildraft[i].approved
    /\ query # <<>>

(***************************************************************************)
(* C3: approve_draft and send_email on a draft id that matches no stored   *)
(* EmailDraft answer 404, and send_email on an existing unapproved draft   *)
(* answers 400; none of the three is answered with 500.  The ids range     *)
(* over well-formed ObjectId strings.                                      *)
(***************************************************************************)
C3_DocumentedStatusCodes ==
    [][\A id \in DraftRequests \ {JunkId} :
        /\ (~DraftExists(id) /\ send_email(id)) => resp'.status = 404
        /\ \A v \in BOOLEAN :
              (~DraftExists(id) /\ approve_draft(id, v)) => resp'.status = 404
        /\ (DraftExists(id) /\ ~DraftNamed(id).approved /\ send_email(id))
              => resp'.status = 400]_vars

(***************************************************************************)
(* C4: approve_draft(draft_id, v) on an existing draft succeeds and        *)
(* returns updated = true exactly when the stored approved value differs   *)
(* from v (so a repeated approve(true) returns updated = false).  Stated   *)
(* for drafts an earlier approve call has already stamped.                 *)
(***************************************************************************)
C4_UpdatedIffValueChanged ==
    [][\A id \in DraftRequests : \A v \in BOOLEAN :
        (/\ DraftExists(id)
         /\ "updated_at" \in DOMAIN DraftNamed(id)
         /\ approve_draft(id, v))
        => /\ resp'.status = 200
           /\ resp'.updated = (DraftNamed(id).approved # v)]_vars

(***************************************************************************)
(* C5: for every limit >= 0, a parse_newsletters(limit) call in which no   *)
(* insert fails appends exactly limit Query documents, each with status    *)
(* "new", returns inserted = limit with the limit new ids, and leaves the  *)
(* Query documents already stored as they were.                            *)
(***************************************************************************)
C5_ParseAddsLimitNewQueries ==
    [][\A limit \in ParseLimits :
        (limit >= 0 /\ resp'.op = "parse" /\ parse_newsletters(limit, 0))
        => /\ Len(query') = Len(query) + limit
           /\ SubSeq(query', 1, Len(query)) = query
           /\ \A i \in (Len(query) + 1)..Len(query') : query'[i].status = "new"
           /\ resp'.status = 200
           /\ resp'.inserted = limit
           /\ Len(resp'.ids) = limit
           /\ \A i \in 1..limit : resp'.ids[i] = str(query'[Len(query) + i]._id)
           /\ \A i, j \in 1..Len(query') : i # j => query'[i]._id # query'[j]._id]_vars

C5_Witness ==
    /\ resp.op = "parse"
    /\ resp.status = 200
    /\ resp.inserted >= 1
    /\ Len(query) > resp.inserted
    /\ \A i \in 1..Len(query) : query[i].status = "new"

(***************************************************************************)
(* C9: a Query's status changes only in a send_email step and only to      *)
(* "sent"; parse_newsletters creates Queries with status "new" and leaves  *)
(* the stored ones alone; generate_pitch, draft_email and approve_draft    *)
(* leave every Query document unchanged.  resp'.op names the handler that  *)
(* took the step.                                                          *)
(***************************************************************************)
C9_StatusChangesOnlyBySend ==
    [][/\ resp'.op \in {"pitch", "draft", "approve"} => query' = query
       /\ resp'.op = "parse"
            => /\ SubSeq(query', 1, Len(query)) = query
               /\ \A i \in (Len(query) + 1)..Len(query') : query'[i].status = "new"
       /\ Len(query') >= Len(query)
       /\ \A i \in 1..Len(query) :
            query'[i].status # query[i].status
            => /\ resp'.op = "send"
               /\ \E id \in DraftRequests : send_email(id)
               /\ query'[i].status = "sent"]_vars

C9_Witness ==
    /\ query # <<>>
    /\ pitch # <<>>
    /\ sent # <<>>
    /\ \E i \in 1..Len(emaildraft) : "updated_at" \in DOMAIN emaildraft[i]
    /\ \A i \in 1..Len(query) : query[i].status = "new"

(***************************************************************************)
(* C6: generate_pitch and draft_email find a Query only among the first    *)
(* 200 documents of the query collection: with more than 200 stored, a     *)
(* query_id of a document past the 200th is answered 404 and no Pitch and  *)
(* no EmailDraft is created; a query_id of one of the first 200 succeeds.  *)
(***************************************************************************)
C6_LookupStopsAtScanLimit ==
    [][\A id \in ScanProbes :
        /\ (/\ Len(query) > QueryScanLimit
            /\ QueryPos(id) > QueryScanLimit
            /\ (generate_pitch(id) \/ draft_email(id)))
           => /\ resp'.status = 404
              /\ pitch' = pitch
              /\ emaildraft' = emaildraft
        /\ (QueryPos(id) \in 1..QueryScanLimit /\ generate_pitch(id))
           => /\ resp'.status = 200
              /\ Len(pitch') = Len(pitch) + 1
              /\ pitch'[Len(pitch')].query_id = id
        /\ (QueryPos(id) \in 1..QueryScanLimit /\ draft_email(id))
           => /\ resp'.status = 200
              /\ Len(emaildraft') = Len(emaildraft) + 1
              /\ emaildraft'[Len(emaildraft')].query_id = id]_vars

\* every probe names a stored Query here, so the 404 is the scan limit's
C6_Witness ==
    /\ Len(query) > QueryScanLimit
    /\ \A id \in ScanProbes : QueryPos(id) # 0
    /\ resp.op = "draft"
    /\ resp.status = 404
    /\ pitch # <<>>

(***************************************************************************)
(* C7: draft_email(query_id) puts into the body the content of the most    *)
(* recently created Pitch for query_id, and the fixed placeholder sentence *)
(* when there is none, in which case the call still succeeds.  Stated for  *)
(* requests whose Query is found and whose templates render.               *)
(***************************************************************************)
LatestPitchContent(query_id) ==
    LET hit == {i \in 1..Len(pitch) : pitch[i].query_id = query_id}
    IN  IF hit = {} THEN PlaceholderPitch
        ELSE pitch[CHOOSE i \in hit : \A j \in hit : j <= i].content

C7_DraftUsesMostRecentPitch ==
    [][\A id \in QueryRequests :
        LET style == resolve_settings(DraftDefaultStyle)
            pos   == QueryPos(id)
        IN  (/\ pos # 0
             /\ render_intro(style, query[pos]).ok
             /\ render_signature(style).ok
             /\ draft_email(id))
            => /\ resp'.status = 200
               /\ resp'.body = compose_body(render_intro(style, query[pos]).out,
                                            LatestPitchContent(id),
                                            render_signature(style).out)]_vars

(***************************************************************************)
(* C8: when the stored Settings' intro_template or signature_template      *)
(* names a placeholder outside {name, your_name, your_title,               *)
(* your_website}, draft_email fails with an error of its own (neither a    *)
(* success nor the generic 500) and creates no EmailDraft.                 *)
(***************************************************************************)
UsesUnknownPlaceholder(style) ==
    (Placeholders(style.intro_template) \cup Placeholders(style.signature_template))
        \ Recognized # {}

C8_TemplateErrorIsDistinct ==
    [][\A id \in QueryRequests :
        (/\ QueryPos(id) # 0
         /\ settings # <<>>
         /\ UsesUnknownPlaceholder(settings[1])
         /\ draft_email(id))
        => /\ resp'.status \notin {200, 500}
           /\ emaildraft' = emaildraft]_vars

(***************************************************************************)
(* C10: under any interleaving of draft, approve and send requests, each   *)
(* SentRecord's draft_id names a stored EmailDraft on which an             *)
(* approve_draft(draft_id, true) took effect before the record was         *)
(* created; a draft never approved has no SentRecord.                      *)
(***************************************************************************)
C10_SentOnlyAfterApproval ==
    /\ \A k \in 1..Len(sent) :
          \E i \in 1..Len(emaildraft) :
              /\ str(emaildraft[i]._id) = sent[k].draft_id
              /\ emaildraft[i]._id \in everApproved
    /\ \A i \in 1..Len(emaildraft) :
          emaildraft[i]._id \notin everApproved
          => \A k \in 1..Len(sent) : sent[k].draft_id # str(emaildraft[i]._id)
    /\ \A r \in 1..Len(reqs) : reqs[r].draft._id \in everApproved

\* a record written for a draft whose approval was withdrawn meanwhile
C10_Witness ==
    /\ sent # <<>>
    /\ \E i \in 1..Len(emaildraft) :
          /\ ~emaildraft[i].approved
          /\ \E k \in 1..Len(sent) : sent[k].draft_id = str(emaildraft[i]._id)

====
